---- MODULE Spec2Model ----
(***************************************************************************)
(* A model of the ExpenseTracker class of src/src/index.ts: the in-memory  *)
(* ledger of expenses and budgets, its filter and budget arithmetic, the   *)
(* CSV codec and the recurrence engine.                                    *)
(*                                                                         *)
(* Conventions.                                                            *)
(*  - A JavaScript string is a sequence of one-character strings.          *)
(*  - A Date is its time value, an integer number of ticks since           *)
(*    1970-01-01T00:00 (TicksPerDay ticks a day instead of 86,400,000 ms); *)
(*    the Invalid Date is the value InvalidDate.  Local time is UTC.       *)
(*  - An optional value (undefined or a value) is <<>> or <<value>>.       *)
(*  - An amount is an integer (a whole number of currency units).          *)
(***************************************************************************)
EXTENDS Integers, Sequences, FiniteSets, TLC

VARIABLES
    expenses,   \* this.expenses: the stored expense records, in order
    budgets,    \* this.budgets: the stored budget records, in order
    file,       \* what saveData last wrote to this.dataFile
    now,        \* the wall clock, Date.now()
    call,       \* the last method called: its name, time and arguments, whether
                \* it threw, and how many expenses were stored before it
    ret,        \* what that call returned, or the message of what it threw
    console     \* what that call wrote with console.warn

vars == <<expenses, budgets, file, now, call, ret, console>>

(***************************************************************************)
(* Bounds of the model.                                                    *)
(***************************************************************************)
TicksPerDay == 2      \* clock ticks in a day
MaxExpenses == 2      \* expenses the ledger specification stores
MaxTicks == 2         \* ticks the clock advances
MaxRandom == 1        \* Math.random has MaxRandom + 1 outcomes
MaxLedger == 4        \* expenses the recurrence specification stores
MaxQueried == 2       \* expenses the query specification stores
MaxBudgeted == 2      \* expenses the budget specification stores
MaxLineLen == 5       \* characters of a line the parser specification parses
MaxExported == 2      \* expenses the CSV specification adds
MaxRows == 2          \* data rows of a document the CSV specification imports
MaxImportInto == 2    \* importFromCSV is called on a ledger of fewer expenses
MaxSummarized == 3    \* expenses the summary specification stores
MaxTagged == 2        \* expenses the tag specification stores
MaxStored == 1        \* expenses the store specification stores
MaxStoreTicks == 1    \* ticks the clock advances in the store specification

(***************************************************************************)
(* Optional values.                                                        *)
(***************************************************************************)
None == <<>>
Some(x) == <<x>>
IsSome(o) == o # <<>>
Get(o) == o[1]

(***************************************************************************)
(* Sequences.                                                              *)
(***************************************************************************)
RECURSIVE SumAmounts(_)
SumAmounts(es) ==
    IF es = <<>> THEN 0 ELSE Head(es).amount + SumAmounts(Tail(es))

RECURSIVE Join(_, _)
Join(ss, sep) ==
    IF ss = <<>> THEN <<>>
    ELSE IF Len(ss) = 1 THEN ss[1]
    ELSE ss[1] \o sep \o Join(Tail(ss), sep)

\* Array.prototype.findIndex, counted from 1: the first of the indices at which
\* the callback holds, or 0 when there is none.
FirstIndex(indices) ==
    IF indices = {} THEN 0 ELSE CHOOSE i \in indices : \A j \in indices : i <= j

RemoveAt(seq, i) == SubSeq(seq, 1, i - 1) \o SubSeq(seq, i + 1, Len(seq))

(***************************************************************************)
(* The calendar of Date: days are counted from 1970-01-01, months from 0.  *)
(***************************************************************************)
IsLeap(y) == (y % 4 = 0 /\ y % 100 # 0) \/ y % 400 = 0

DaysInMonth(y, m) ==
    IF m = 1 THEN (IF IsLeap(y) THEN 29 ELSE 28)
    ELSE IF m \in {3, 5, 8, 10} THEN 30 ELSE 31

DaysBeforeYear(y) ==
    365 * (y - 1970) + ((y - 1969) \div 4) - ((y - 1901) \div 100)
        + ((y - 1601) \div 400)

RECURSIVE DaysBeforeMonth(_, _)
DaysBeforeMonth(y, m) ==
    IF m = 0 THEN 0 ELSE DaysBeforeMonth(y, m - 1) + DaysInMonth(y, m - 1)

\* MakeDay of ECMAScript: the day number of year y, month m, day-of-month d,
\* where m and d may lie outside their range and carry over.
MakeDay(y, m, d) ==
    LET yy == y + (m \div 12)
        mm == m % 12
    IN  DaysBeforeYear(yy) + DaysBeforeMonth(yy, mm) + d - 1

\* new Date(year, month, day): local midnight of that day.
DateOf(y, m, d) == MakeDay(y, m, d) * TicksPerDay

DayOf(t) == t \div TicksPerDay
TimeInDay(t) == t % TicksPerDay

YearFromDay(day) ==
    LET guess == 1970 + (day \div 366)
    IN  CHOOSE y \in guess..(guess + 2) :
            DaysBeforeYear(y) <= day /\ day < DaysBeforeYear(y + 1)

getFullYear(t) == YearFromDay(DayOf(t))

getMonth(t) ==
    LET y == getFullYear(t)
        n == DayOf(t) - DaysBeforeYear(y)
    IN  CHOOSE m \in 0..11 :
            DaysBeforeMonth(y, m) <= n /\ n < DaysBeforeMonth(y, m) + DaysInMonth(y, m)

getDate(t) ==
    LET y == getFullYear(t)
    IN  DayOf(t) - DaysBeforeYear(y) - DaysBeforeMonth(y, getMonth(t)) + 1

InvalidDate == -1

\* The relational operators on Dates: every comparison with the Invalid Date
\* (time value NaN) is false.
DateLE(a, b) == a # InvalidDate /\ b # InvalidDate /\ a <= b
DateLT(a, b) == a # InvalidDate /\ b # InvalidDate /\ a < b
DateGE(a, b) == DateLE(b, a)
DateGT(a, b) == DateLT(b, a)

(***************************************************************************)
(* Strings and the values of the data model.                               *)
(***************************************************************************)
Digits36 ==
    <<"0", "1", "2", "3", "4", "5", "6", "7", "8", "9", "a", "b", "c", "d", "e",
      "f", "g", "h", "i", "j", "k", "l", "m", "n", "o", "p", "q", "r", "s", "t",
      "u", "v", "w", "x", "y", "z">>

\* Number.prototype.toString(radix) of a non-negative integer.
RECURSIVE NatToString(_, _)
NatToString(n, radix) ==
    IF n < radix THEN <<Digits36[n + 1]>>
    ELSE NatToString(n \div radix, radix) \o <<Digits36[(n % radix) + 1]>>

\* Number.prototype.toString() of an integer.
NumberToString(n) ==
    IF n < 0 THEN <<"-">> \o NatToString(-n, 10) ELSE NatToString(n, 10)

\* enum PaymentMethod
Cash == <<"c", "a", "s", "h">>
CreditCard == <<"c", "r", "e", "d", "i", "t", "_", "c", "a", "r", "d">>
DebitCard == <<"d", "e", "b", "i", "t", "_", "c", "a", "r", "d">>
BankTransfer ==
    <<"b", "a", "n", "k", "_", "t", "r", "a", "n", "s", "f", "e", "r">>
DigitalWallet ==
    <<"d", "i", "g", "i", "t", "a", "l", "_", "w", "a", "l", "l", "e", "t">>
Other == <<"o", "t", "h", "e", "r">>
PaymentMethod ==
    {Cash, CreditCard, DebitCard, BankTransfer, DigitalWallet, Other}

Frequencies == {"daily", "weekly", "monthly", "yearly"}

(***************************************************************************)
(* The tracker as a value: what one method call reads and writes.          *)
(***************************************************************************)
Tracker(es, bs, f, out) ==
    [expenses |-> es, budgets |-> bs, file |-> f, console |-> out]

\* saveData: the whole state is rewritten, with the time of writing.
saveData(T, t) ==
    [T EXCEPT !.file = [expenses |-> T.expenses, budgets |-> T.budgets,
                        lastUpdated |-> t]]

\* generateId: Date.now().toString(36) followed by the digits of
\* Math.random().toString(36) after "0."; tail is what Math.random yields.
generateId(t, tail) == NatToString(t, 36) \o tail

getBudget(bs, category) ==
    LET i == FirstIndex({k \in 1..Len(bs) : bs[k].category = category})
    IN  IF i = 0 THEN None ELSE Some(bs[i])

getCurrentMonthSpending(es, category, t) ==
    LET startOfMonth == DateOf(getFullYear(t), getMonth(t), 1)
        endOfMonth == DateOf(getFullYear(t), getMonth(t) + 1, 0)
    IN  SumAmounts(SelectSeq(es, LAMBDA e :
            /\ e.category = category
            /\ DateGE(e.date, startOfMonth)
            /\ DateLE(e.date, endOfMonth)))

\* (currentSpent / monthlyLimit) * 100 >= alertThreshold, in exact arithmetic;
\* a zero limit divides to Infinity, -Infinity or NaN.
PercentageReached(currentSpent, monthlyLimit, alertThreshold) ==
    IF monthlyLimit > 0 THEN currentSpent * 100 >= alertThreshold * monthlyLimit
    ELSE IF monthlyLimit < 0
         THEN currentSpent * 100 <= alertThreshold * monthlyLimit
    ELSE currentSpent > 0

checkBudgetAlerts(T, category, t) ==
    LET budget == getBudget(T.budgets, category)
    IN  IF ~IsSome(budget) THEN T
        ELSE LET currentSpent == getCurrentMonthSpending(T.expenses, category, t)
             IN  IF PercentageReached(currentSpent, Get(budget).monthlyLimit,
                                      Get(budget).alertThreshold)
                 THEN [T EXCEPT !.console = @ \o
                          <<[kind |-> "budgetAlert",
                             category |-> category, spent |-> currentSpent,
                             limit |-> Get(budget).monthlyLimit]>>]
                 ELSE T

\* An expense without its id, as addExpense takes it.
NewExpense(description, amount, category, date, paymentMethod, tags, recurring) ==
    [description |-> description, amount |-> amount, category |-> category,
     date |-> date, paymentMethod |-> paymentMethod, tags |-> tags,
     recurring |-> recurring]

WithId(e, id) ==
    [id |-> id, description |-> e.description, amount |-> e.amount,
     category |-> e.category, date |-> e.date,
     paymentMethod |-> e.paymentMethod, tags |-> e.tags,
     recurring |-> e.recurring]

\* addExpense, with the outcome of Math.random and the time of the call.
addExpense(T, expense, tail, t) ==
    LET newExpense == WithId(expense, generateId(t, tail))
        pushed == [T EXCEPT !.expenses = Append(@, newExpense)]
    IN  checkBudgetAlerts(saveData(pushed, t), newExpense.category, t)

findIndex(es, id) == FirstIndex({k \in 1..Len(es) : es[k].id = id})

\* Partial<Omit<Expense, "id">>: every field is optional.
NoUpdates ==
    [description |-> None, amount |-> None, category |-> None, date |-> None,
     paymentMethod |-> None, tags |-> None, recurring |-> None]

Merge(old, new) == IF IsSome(new) THEN Get(new) ELSE old

\* updateExpense; the result is the tracker and the value returned.
updateExpense(T, id, updates, t) ==
    LET index == findIndex(T.expenses, id)
        old == T.expenses[index]
        updatedExpense ==
            [id |-> old.id,
             description |-> Merge(old.description, updates.description),
             amount |-> Merge(old.amount, updates.amount),
             category |-> Merge(old.category, updates.category),
             date |-> Merge(old.date, updates.date),
             paymentMethod |-> Merge(old.paymentMethod, updates.paymentMethod),
             tags |-> Merge(old.tags, updates.tags),
             recurring |-> Merge(old.recurring, updates.recurring)]
    IN  IF index = 0 THEN [T |-> T, ret |-> None]
        ELSE [T |-> saveData([T EXCEPT !.expenses[index] = updatedExpense], t),
              ret |-> Some(updatedExpense)]

\* deleteExpense without the test for index -1: splice(-1, 1) removes the
\* last expense.
deleteExpenseUnchecked(T, id, t) ==
    LET index == findIndex(T.expenses, id)
        at == IF index = 0 THEN Len(T.expenses) ELSE index
    IN  [T |-> saveData([T EXCEPT !.expenses = RemoveAt(@, at)], t), ret |-> TRUE]

deleteExpense(T, id, t) ==
    LET index == findIndex(T.expenses, id)
    IN  IF index = 0 THEN [T |-> T, ret |-> FALSE]
        ELSE [T |-> saveData([T EXCEPT !.expenses = RemoveAt(@, index)], t),
              ret |-> TRUE]

\* getExpense: the first stored expense of that id, or null.
getExpense(es, id) ==
    LET index == findIndex(es, id)
    IN  IF index = 0 THEN None ELSE Some(es[index])

(***************************************************************************)
(* The filter engine and the budgets.                                      *)
(***************************************************************************)
\* FilterOptions: every predicate is optional.
NoFilters ==
    [dateFrom |-> None, dateTo |-> None, category |-> None, minAmount |-> None,
     maxAmount |-> None, paymentMethod |-> None, tags |-> None]

\* What an if takes for true: a number other than 0, a string other than "",
\* any Date and any array.
TruthyNumber(o) == IsSome(o) /\ Get(o) # 0
TruthyString(o) == IsSome(o) /\ Get(o) # <<>>
TruthyObject(o) == IsSome(o)

includes(array, x) == \E i \in 1..Len(array) : array[i] = x

\* The callback with some in place of every: one tag of the filter among the
\* tags of the expense is enough.
passesFiltersAnyTag(expense, filters) ==
    TruthyObject(filters.tags) =>
        \E k \in 1..Len(Get(filters.tags)) :
            includes(expense.tags, Get(filters.tags)[k])

\* The callback of getFilteredExpenses.
passesFilters(expense, filters) ==
    IF TruthyObject(filters.dateFrom) /\ DateLT(expense.date, Get(filters.dateFrom))
    THEN FALSE
    ELSE IF TruthyObject(filters.dateTo) /\ DateGT(expense.date, Get(filters.dateTo))
    THEN FALSE
    ELSE IF TruthyString(filters.category)
            /\ expense.category # Get(filters.category)
    THEN FALSE
    ELSE IF TruthyNumber(filters.minAmount)
            /\ expense.amount < Get(filters.minAmount)
    THEN FALSE
    ELSE IF TruthyNumber(filters.maxAmount)
            /\ expense.amount > Get(filters.maxAmount)
    THEN FALSE
    ELSE IF TruthyString(filters.paymentMethod)
            /\ expense.paymentMethod # Get(filters.paymentMethod)
    THEN FALSE
    ELSE IF TruthyObject(filters.tags)
            /\ ~(\A k \in 1..Len(Get(filters.tags)) :
                    includes(expense.tags, Get(filters.tags)[k]))
    THEN FALSE
    ELSE TRUE

getFilteredExpenses(es, filters) ==
    SelectSeq(es, LAMBDA e : passesFilters(e, filters))

\* A Map is the sequence of its entries, in the order of insertion.
\* map.get(key) || 0
mapGetOrZero(map, key) ==
    LET i == FirstIndex({k \in 1..Len(map) : map[k].key = key})
    IN  IF i = 0 THEN 0 ELSE map[i].value

\* map.set that adds an entry whether or not the key has one.
mapSetAppend(map, key, value) == Append(map, [key |-> key, value |-> value])

\* map.set(key, value)
mapSet(map, key, value) ==
    LET i == FirstIndex({k \in 1..Len(map) : map[k].key = key})
    IN  IF i = 0 THEN Append(map, [key |-> key, value |-> value])
        ELSE [map EXCEPT ![i].value = value]

\* String.prototype.padStart(2, "0")
padStart2(str) == IF Len(str) < 2 THEN <<"0">> \o str ELSE str

\* `${date.getFullYear()}-${(date.getMonth() + 1).toString().padStart(2, "0")}`;
\* the getters of the Invalid Date return NaN.
monthKey(date) ==
    IF date = InvalidDate THEN <<"N", "a", "N", "-", "N", "a", "N">>
    ELSE NumberToString(getFullYear(date)) \o <<"-">>
             \o padStart2(NumberToString(getMonth(date) + 1))

\* The forEach of getSummary from the i-th expense; B is the three maps.
RECURSIVE breakdownFrom(_, _, _)
breakdownFrom(B, es, i) ==
    IF i > Len(es) THEN B
    ELSE LET expense == es[i]
             month == monthKey(expense.date)
         IN  breakdownFrom(
                 [categoryBreakdown |->
                      mapSet(B.categoryBreakdown, expense.category,
                             mapGetOrZero(B.categoryBreakdown, expense.category)
                                 + expense.amount),
                  monthlyTrend |->
                      mapSet(B.monthlyTrend, month,
                             mapGetOrZero(B.monthlyTrend, month) + expense.amount),
                  paymentMethodBreakdown |->
                      mapSet(B.paymentMethodBreakdown, expense.paymentMethod,
                             mapGetOrZero(B.paymentMethodBreakdown,
                                          expense.paymentMethod)
                                 + expense.amount)],
                 es, i + 1)

\* getSummary; filters is undefined or a FilterOptions.  The quotient
\* averageExpense is the fraction num / den.
getSummary(es, filters) ==
    LET filteredExpenses ==
            IF IsSome(filters) THEN getFilteredExpenses(es, Get(filters)) ELSE es
        totalExpenses == SumAmounts(filteredExpenses)
        expenseCount == Len(filteredExpenses)
        B == breakdownFrom([categoryBreakdown |-> <<>>, monthlyTrend |-> <<>>,
                            paymentMethodBreakdown |-> <<>>],
                           filteredExpenses, 1)
    IN  [totalExpenses |-> totalExpenses,
         expenseCount |-> expenseCount,
         averageExpense |->
             IF expenseCount > 0
             THEN [num |-> totalExpenses, den |-> expenseCount]
             ELSE [num |-> 0, den |-> 1],
         categoryBreakdown |-> B.categoryBreakdown,
         monthlyTrend |-> B.monthlyTrend,
         paymentMethodBreakdown |-> B.paymentMethodBreakdown]

\* setBudget that appends the budget whether or not the category has one.
setBudgetAlwaysPush(T, category, monthlyLimit, alertThreshold, t) ==
    LET budget ==
            [category |-> category, monthlyLimit |-> monthlyLimit,
             currentSpent |-> getCurrentMonthSpending(T.expenses, category, t),
             alertThreshold |-> alertThreshold]
    IN  [T |-> saveData([T EXCEPT !.budgets = Append(@, budget)], t),
         ret |-> budget]

\* setBudget; the result is the tracker and the budget returned.
setBudget(T, category, monthlyLimit, alertThreshold, t) ==
    LET existingBudgetIndex ==
            FirstIndex({k \in 1..Len(T.budgets) : T.budgets[k].category = category})
        budget ==
            [category |-> category, monthlyLimit |-> monthlyLimit,
             currentSpent |-> getCurrentMonthSpending(T.expenses, category, t),
             alertThreshold |-> alertThreshold]
        replaced ==
            IF existingBudgetIndex # 0
            THEN [T EXCEPT !.budgets[existingBudgetIndex] = budget]
            ELSE [T EXCEPT !.budgets = Append(@, budget)]
    IN  [T |-> saveData(replaced, t), ret |-> budget]

getAllBudgets(es, bs, t) ==
    [i \in 1..Len(bs) |->
        [bs[i] EXCEPT !.currentSpent =
            getCurrentMonthSpending(es, bs[i].category, t)]]

(***************************************************************************)
(* The recurrence engine.                                                  *)
(***************************************************************************)
calculateNextDueDateSameDay(currentDue, frequency) == currentDue

\* setDate, setMonth and setFullYear keep the time of day and let the day of
\* the month carry over into the next month.
calculateNextDueDate(currentDue, frequency) ==
    LET y == getFullYear(currentDue)
        m == getMonth(currentDue)
        d == getDate(currentDue)
        time == TimeInDay(currentDue)
    IN  CASE frequency = "daily" -> MakeDay(y, m, d + 1) * TicksPerDay + time
          [] frequency = "weekly" -> MakeDay(y, m, d + 7) * TicksPerDay + time
          [] frequency = "monthly" -> MakeDay(y, m + 1, d) * TicksPerDay + time
          [] frequency = "yearly" -> MakeDay(y + 1, m, d) * TicksPerDay + time

RecurringSuffix == <<" ", "(", "R", "e", "c", "u", "r", "r", "i", "n", "g", ")">>
RecurringTag == <<"r", "e", "c", "u", "r", "r", "i", "n", "g">>

getRecurringExpenses(es) == SelectSeq(es, LAMBDA e : IsSome(e.recurring))

isDue(recurring, today) ==
    /\ DateLE(recurring.nextDue, today)
    /\ (~IsSome(recurring.endDate) \/ DateLE(today, Get(recurring.endDate)))

\* The body of the forEach of processRecurringExpenses for one expense of the
\* snapshot; R is the tracker and the new expenses so far.
processOne(R, expense, tail, today) ==
    LET recurring == Get(expense.recurring)
        advanced ==
            [frequency |-> recurring.frequency, endDate |-> recurring.endDate,
             nextDue |-> calculateNextDueDate(recurring.nextDue,
                                              recurring.frequency)]
        newExpense ==
            NewExpense(expense.description \o RecurringSuffix, expense.amount,
                       expense.category, recurring.nextDue,
                       expense.paymentMethod, Append(expense.tags, RecurringTag),
                       Some(advanced))
        added == addExpense(R.T, newExpense, tail, today)
        addedExpense == added.expenses[Len(added.expenses)]
        updated ==
            updateExpense(added, expense.id,
                          [NoUpdates EXCEPT !.recurring = Some(Some(advanced))],
                          today).T
    IN  IF isDue(recurring, today)
        THEN [T |-> updated, newExpenses |-> Append(R.newExpenses, addedExpense)]
        ELSE R

RECURSIVE processFrom(_, _, _, _, _)
processFrom(R, snapshot, i, tails, today) ==
    IF i > Len(snapshot) THEN R
    ELSE processFrom(processOne(R, snapshot[i], tails[i], today),
                     snapshot, i + 1, tails, today)

\* processRecurringExpenses; tails[i] is what Math.random yields for the i-th
\* expense of the snapshot.
processRecurringExpenses(T, tails, today) ==
    processFrom([T |-> T, newExpenses |-> <<>>],
                getRecurringExpenses(T.expenses), 1, tails, today)

(***************************************************************************)
(* The CSV codec.                                                          *)
(***************************************************************************)
Quote == "\""
Comma == ","
NewLine == "\n"
Whitespace == {" ", "\t", "\r", "\n"}
DecimalDigits == {"0", "1", "2", "3", "4", "5", "6", "7", "8", "9"}
DigitValue(c) == CHOOSE v \in 0..9 : Digits36[v + 1] = c

\* String.prototype.split(separator) for a separator of one character.
RECURSIVE Split(_, _)
Split(s, sep) ==
    IF \E i \in 1..Len(s) : s[i] = sep
    THEN LET i == CHOOSE k \in 1..Len(s) :
                     s[k] = sep /\ \A j \in 1..(k - 1) : s[j] # sep
         IN  <<SubSeq(s, 1, i - 1)>> \o Split(SubSeq(s, i + 1, Len(s)), sep)
    ELSE <<s>>

\* line.trim() is not the empty string.
NonBlank(line) == \E i \in 1..Len(line) : line[i] \notin Whitespace

\* n in decimal, padded with zeros to width digits.
RECURSIVE Pad(_, _)
Pad(n, width) ==
    IF width = 0 THEN <<>>
    ELSE Pad(n \div 10, width - 1) \o <<Digits36[(n % 10) + 1]>>

\* date.toISOString().split("T")[0] of a valid Date of the years 0 to 9999.
ISODate(t) ==
    Pad(getFullYear(t), 4) \o <<"-">> \o Pad(getMonth(t) + 1, 2)
        \o <<"-">> \o Pad(getDate(t), 2)

RECURSIVE ParseNat(_)
ParseNat(digits) ==
    IF digits = <<>> THEN 0
    ELSE 10 * ParseNat(SubSeq(digits, 1, Len(digits) - 1))
             + DigitValue(digits[Len(digits)])

\* new Date(string) for a string in the form YYYY-MM-DD (midnight, UTC) and
\* for a string that is no date at all (the Invalid Date).  Strings that the
\* engine's fallback parser might accept are outside the model.
ParseDate(s) ==
    IF /\ Len(s) = 10
       /\ s[5] = "-" /\ s[8] = "-"
       /\ \A i \in {1, 2, 3, 4, 6, 7, 9, 10} : s[i] \in DecimalDigits
    THEN LET y == ParseNat(SubSeq(s, 1, 4))
             m == ParseNat(SubSeq(s, 6, 7))
             d == ParseNat(SubSeq(s, 9, 10))
         IN  IF m \in 1..12 /\ d >= 1 /\ d <= DaysInMonth(y, m - 1)
             THEN DateOf(y, m - 1, d)
             ELSE InvalidDate
    ELSE InvalidDate

\* The length of the longest prefix of s, from position i, made of digits.
RECURSIVE DigitsFrom(_, _)
DigitsFrom(s, i) ==
    IF i <= Len(s) /\ s[i] \in DecimalDigits THEN 1 + DigitsFrom(s, i + 1) ELSE 0

RECURSIVE SkipWhitespace(_, _)
SkipWhitespace(s, i) ==
    IF i <= Len(s) /\ s[i] \in Whitespace THEN SkipWhitespace(s, i + 1) ELSE i

\* parseFloat of a string without fraction or exponent: leading white space,
\* a sign, and the longest run of digits.  The result is None for NaN (there
\* is no digit) and Some(number) otherwise.
parseFloat(s) ==
    LET start == SkipWhitespace(s, 1)
        signed == start <= Len(s) /\ s[start] \in {"-", "+"}
        first == IF signed THEN start + 1 ELSE start
        n == DigitsFrom(s, first)
        value == ParseNat(SubSeq(s, first, first + n - 1))
    IN  IF n = 0 THEN None
        ELSE IF signed /\ s[start] = "-" THEN Some(-value) ELSE Some(value)

\* The variables of parseCSVLine before its loop (i counted from 1).
parseStart == [i |-> 1, inQuotes |-> FALSE, current |-> <<>>, result |-> <<>>]

\* The body of the loop without the decoding of a doubled quote.
parseStepNoEscape(line, st) ==
    LET char == line[st.i]
    IN  IF char = Quote
        THEN [st EXCEPT !.inQuotes = ~st.inQuotes, !.i = st.i + 1]
        ELSE IF char = Comma /\ ~st.inQuotes
        THEN [st EXCEPT !.result = Append(st.result, st.current),
                        !.current = <<>>, !.i = st.i + 1]
        ELSE [st EXCEPT !.current = Append(st.current, char), !.i = st.i + 1]

RECURSIVE parseLoopNoEscape(_, _, _)
parseLoopNoEscape(line, st, n) ==
    IF n = 0 \/ st.i > Len(line) THEN st
    ELSE IF n = 1 THEN parseStepNoEscape(line, st)
    ELSE parseLoopNoEscape(line, parseLoopNoEscape(line, st, n \div 2),
                           n - (n \div 2))

\* parseCSVLine without the decoding of a doubled quote.
parseCSVLineNoEscape(line) ==
    LET st == parseLoopNoEscape(line, parseStart, Len(line))
    IN  Append(st.result, st.current)

\* One iteration of the while loop of parseCSVLine, for st.i <= Len(line).
parseStep(line, st) ==
    LET char == line[st.i]
    IN  IF char = Quote
        THEN IF st.inQuotes /\ st.i + 1 <= Len(line) /\ line[st.i + 1] = Quote
             THEN [st EXCEPT !.current = Append(st.current, Quote),
                             !.i = st.i + 2]
             ELSE [st EXCEPT !.inQuotes = ~st.inQuotes, !.i = st.i + 1]
        ELSE IF char = Comma /\ ~st.inQuotes
        THEN [st EXCEPT !.result = Append(st.result, st.current),
                        !.current = <<>>, !.i = st.i + 1]
        ELSE [st EXCEPT !.current = Append(st.current, char), !.i = st.i + 1]

\* The while loop of parseCSVLine run for at most n iterations: the first
\* half of them, then the rest.  The loop ends within Len(line) iterations,
\* for each iteration moves i forward.
RECURSIVE parseLoop(_, _, _)
parseLoop(line, st, n) ==
    IF n = 0 \/ st.i > Len(line) THEN st
    ELSE IF n = 1 THEN parseStep(line, st)
    ELSE parseLoop(line, parseLoop(line, st, n \div 2), n - (n \div 2))

parseCSVLine(line) ==
    LET st == parseLoop(line, parseStart, Len(line))
    IN  Append(st.result, st.current)

CsvHeaders ==
    << <<"I", "D">>,
       <<"D", "e", "s", "c", "r", "i", "p", "t", "i", "o", "n">>,
       <<"A", "m", "o", "u", "n", "t">>,
       <<"C", "a", "t", "e", "g", "o", "r", "y">>,
       <<"D", "a", "t", "e">>,
       <<"P", "a", "y", "m", "e", "n", "t", " ", "M", "e", "t", "h", "o", "d">>,
       <<"T", "a", "g", "s">> >>

csvRow(fields) ==
    Join([i \in 1..Len(fields) |-> <<Quote>> \o fields[i] \o <<Quote>>], <<Comma>>)

\* exportToCSV of a ledger whose dates are all valid.
exportToCSV(es) ==
    LET rows == [i \in 1..Len(es) |->
                    << es[i].id, es[i].description, NumberToString(es[i].amount),
                       es[i].category, ISODate(es[i].date), es[i].paymentMethod,
                       Join(es[i].tags, <<";">>) >>]
        all == <<CsvHeaders>> \o rows
    IN  Join([i \in 1..Len(all) |-> csvRow(all[i])], <<NewLine>>)

\* fields[k] of JavaScript (k counted from 0): undefined outside the array.
Field(fields, k) == IF k + 1 <= Len(fields) THEN Some(fields[k + 1]) ELSE None

ImportedExpense == <<"I", "m", "p", "o", "r", "t", "e", "d", " ", "e", "x", "p", "e", "n", "s", "e">>
OtherCategory == <<"O", "t", "h", "e", "r">>

\* The expense importFromCSV builds from the fields of a row.
rowExpense(fields, t) ==
    LET amount == IF IsSome(Field(fields, 2))
                  THEN parseFloat(Get(Field(fields, 2))) ELSE None
    IN  NewExpense(
            IF TruthyString(Field(fields, 1))
                THEN Get(Field(fields, 1)) ELSE ImportedExpense,
            IF TruthyNumber(amount) THEN Get(amount) ELSE 0,
            IF TruthyString(Field(fields, 3))
                THEN Get(Field(fields, 3)) ELSE OtherCategory,
            IF TruthyString(Field(fields, 4))
                THEN ParseDate(Get(Field(fields, 4))) ELSE t,
            IF TruthyString(Field(fields, 5)) THEN Get(Field(fields, 5)) ELSE Other,
            IF TruthyString(Field(fields, 6))
                THEN Split(Get(Field(fields, 6)), ";") ELSE <<>>,
            None)

\* importFromCSV where a malformed row ends the loop.
RECURSIVE importFromUntilMalformed(_, _, _, _, _, _)
importFromUntilMalformed(R, lines, headers, i, tails, t) ==
    IF i > Len(lines) THEN R
    ELSE LET fields == parseCSVLine(lines[i])
         IN  IF Len(fields) # Len(headers)
             THEN [R EXCEPT !.T.console = Append(@, [kind |-> "skip", row |-> i])]
             ELSE importFromUntilMalformed(
                      [T |-> addExpense(R.T, rowExpense(fields, t), tails[i], t),
                       importedCount |-> R.importedCount + 1],
                      lines, headers, i + 1, tails, t)

\* The for loop of importFromCSV from the line lines[i] (i counted from 1;
\* lines[1] is the header); R is the tracker and the count so far.
RECURSIVE importFrom(_, _, _, _, _, _)
importFrom(R, lines, headers, i, tails, t) ==
    IF i > Len(lines) THEN R
    ELSE LET fields == parseCSVLine(lines[i])
         IN  IF Len(fields) # Len(headers)
             THEN importFrom(
                      [R EXCEPT !.T.console =
                          Append(@, [kind |-> "skip", row |-> i])],
                      lines, headers, i + 1, tails, t)
             ELSE importFrom(
                      [T |-> addExpense(R.T, rowExpense(fields, t), tails[i], t),
                       importedCount |-> R.importedCount + 1],
                      lines, headers, i + 1, tails, t)

\* importFromCSV; tails[i] is what Math.random yields for the line lines[i].
\* The result is the tracker and the count returned, or the message of the
\* error thrown.
importFromCSV(T, csvData, tails, t) ==
    LET lines == SelectSeq(Split(csvData, NewLine), NonBlank)
    IN  IF Len(lines) < 2
        THEN [T |-> T, threw |-> TRUE,
              ret |-> "CSV must contain header and at least one data row"]
        ELSE LET R == importFrom([T |-> T, importedCount |-> 0], lines,
                                 parseCSVLine(lines[1]), 2, tails, t)
             IN  [T |-> R.T, threw |-> FALSE, ret |-> R.importedCount]

(***************************************************************************)
(* The public methods as actions.  Each starts with an empty console and   *)
(* records the call and what it returned.                                  *)
(***************************************************************************)
This == Tracker(expenses, budgets, file, <<>>)

\* The record of a call: stored is the number of expenses it found stored.
CalledOn(op, args, threw, stored) ==
    [op |-> op, at |-> now, args |-> args, threw |-> threw, stored |-> stored]

Called(op, args, threw) == CalledOn(op, args, threw, Len(expenses))

Commit(T) ==
    /\ expenses' = T.expenses
    /\ budgets' = T.budgets
    /\ file' = T.file
    /\ console' = T.console

\* The outcomes of Math.random().toString(36).substr(2): the empty string
\* (Math.random() = 0) or digits.
RandomTails == {<<>>} \cup {<<Digits36[k + 1]>> : k \in 1..MaxRandom}

AddExpense(expense, tail) ==
    LET T == addExpense(This, expense, tail, now)
    IN  /\ Commit(T)
        /\ call' = Called("addExpense", <<expense>>, FALSE)
        /\ ret' = T.expenses[Len(T.expenses)]
        /\ UNCHANGED now

UpdateExpense(id, updates) ==
    LET R == updateExpense(This, id, updates, now)
    IN  /\ Commit(R.T)
        /\ call' = Called("updateExpense", <<id, updates>>, FALSE)
        /\ ret' = R.ret
        /\ UNCHANGED now

DeleteExpense(id) ==
    LET R == deleteExpense(This, id, now)
    IN  /\ Commit(R.T)
        /\ call' = Called("deleteExpense", <<id>>, FALSE)
        /\ ret' = R.ret
        /\ UNCHANGED now

ProcessRecurringExpenses(tails) ==
    LET R == processRecurringExpenses(This, tails, now)
    IN  /\ Commit(R.T)
        /\ call' = Called("processRecurringExpenses", <<>>, FALSE)
        /\ ret' = R.newExpenses
        /\ UNCHANGED now

\* A method that reads only.
Query(op, args, result) ==
    /\ call' = Called(op, args, FALSE)
    /\ ret' = result
    /\ console' = <<>>
    /\ UNCHANGED <<expenses, budgets, file, now>>

GetFilteredExpenses(filters) ==
    Query("getFilteredExpenses", <<filters>>,
          getFilteredExpenses(expenses, filters))

GetExpense(id) == Query("getExpense", <<id>>, getExpense(expenses, id))

GetSummary(filters) ==
    Query("getSummary", <<filters>>, getSummary(expenses, filters))

GetAllBudgets == Query("getAllBudgets", <<>>, getAllBudgets(expenses, budgets, now))

SetBudget(category, monthlyLimit, alertThreshold) ==
    LET R == setBudget(This, category, monthlyLimit, alertThreshold, now)
    IN  /\ Commit(R.T)
        /\ call' = Called("setBudget", <<category, monthlyLimit, alertThreshold>>, FALSE)
        /\ ret' = R.ret
        /\ UNCHANGED now

ParseCSVLine(line) == Query("parseCSVLine", <<line>>, parseCSVLine(line))

\* toISOString throws a RangeError for the Invalid Date.
ExportToCSV ==
    LET invalid == \E i \in 1..Len(expenses) : expenses[i].date = InvalidDate
    IN  /\ call' = Called("exportToCSV", <<>>, invalid)
        /\ ret' = IF invalid THEN "Invalid time value" ELSE exportToCSV(expenses)
        /\ console' = <<>>
        /\ UNCHANGED <<expenses, budgets, file, now>>

ImportFromCSV(csvData, tails) ==
    LET R == importFromCSV(This, csvData, tails, now)
    IN  /\ Commit(R.T)
        /\ call' = Called("importFromCSV", <<csvData>>, R.threw)
        /\ ret' = R.ret
        /\ UNCHANGED now

\* new ExpenseTracker(dataFile).importFromCSV(csvData) for a dataFile that
\* does not exist: the import into an empty store.
ImportIntoNewTracker(csvData, tails) ==
    LET R == importFromCSV(Tracker(<<>>, <<>>, None, <<>>), csvData, tails, now)
    IN  /\ Commit(R.T)
        /\ call' = CalledOn("new.importFromCSV", <<csvData>>, R.threw, 0)
        /\ ret' = R.ret
        /\ UNCHANGED now

\* Time passes between two calls.
Tick(last) ==
    /\ now < last
    /\ now' = now + 1
    /\ UNCHANGED <<expenses, budgets, file, call, ret, console>>

\* The state after construction when no data file exists.
Constructed(t) ==
    /\ expenses = <<>>
    /\ budgets = <<>>
    /\ file = None
    /\ now = t
    /\ call = [op |-> "constructor", at |-> t, args |-> <<>>, threw |-> FALSE,
                    stored |-> 0]
    /\ ret = None
    /\ console = <<>>

(***************************************************************************)
(* The ledger specification: every mutating method is called on a ledger   *)
(* that starts empty, while time passes.                                   *)
(***************************************************************************)
Food == <<"F", "o", "o", "d">>
Rent == <<"R", "e", "n", "t">>
Netflix == <<"N", "e", "t", "f", "l", "i", "x">>

LedgerStart == DateOf(2024, 4, 15)

LedgerExpenses ==
    {NewExpense(Netflix, 15, category, LedgerStart, CreditCard, <<>>, recurring) :
        category \in {Food, Rent},
        recurring \in {None,
                       Some([frequency |-> "daily", endDate |-> None,
                             nextDue |-> LedgerStart])}}

LedgerUpdates ==
    {[NoUpdates EXCEPT !.amount = Some(20)],
     [NoUpdates EXCEPT !.category = Some(Rent), !.date = Some(LedgerStart + 1)]}

\* The ids of the stored expenses, and one that no expense has.
KnownIds == {expenses[i].id : i \in 1..Len(expenses)} \cup {<<"n", "o", "n", "e">>}

LedgerDocs ==
    {<<"i", "d", Comma, "n", "a", "m", "e", NewLine,
       "1", Comma, "t", "e", "a", NewLine, "2">>}

AllTails(n) == [1..n -> RandomTails]

LedgerNext ==
    \/ /\ Len(expenses) < MaxExpenses
       /\ \E expense \in LedgerExpenses, tail \in RandomTails :
              AddExpense(expense, tail)
    \/ \E id \in KnownIds, updates \in LedgerUpdates : UpdateExpense(id, updates)
    \/ \E id \in KnownIds : DeleteExpense(id)
    \/ /\ Len(expenses) < MaxExpenses
       /\ \E csvData \in LedgerDocs, tails \in AllTails(3) :
              ImportFromCSV(csvData, tails)
    \/ /\ Len(expenses) < MaxExpenses
       /\ \E tails \in AllTails(Len(getRecurringExpenses(expenses))) :
              ProcessRecurringExpenses(tails)
    \/ Tick(LedgerStart + MaxTicks)

Spec == Constructed(LedgerStart) /\ [][LedgerNext]_vars

(***************************************************************************)
(* The recurrence specification: a ledger holding one recurring expense,   *)
(* on which processRecurringExpenses is called again and again while time  *)
(* passes.                                                                 *)
(***************************************************************************)
\* The days on which the recurrence specification starts: the ends of
\* January and of February of a leap year, and a day in mid-month.
StartDays == {MakeDay(2024, 0, 31), MakeDay(2024, 1, 29), MakeDay(2024, 4, 15)}

\* How many days before the start the first instance is due.
DueDaysAgo == {0, 1, 7, 31}

RecurringInit ==
    \E day \in StartDays, time \in 0..(TicksPerDay - 1),
       ago \in DueDaysAgo, dueTime \in 0..(TicksPerDay - 1),
       frequency \in Frequencies, end \in {None, Some(0), Some(1)} :
        LET t == day * TicksPerDay + time
            endDate ==
                IF IsSome(end) THEN Some((day + Get(end)) * TicksPerDay) ELSE None
            recurring ==
                [frequency |-> frequency, endDate |-> endDate,
                 nextDue |-> (day - ago) * TicksPerDay + dueTime]
            T == addExpense(Tracker(<<>>, <<>>, None, <<>>),
                            NewExpense(Netflix, 15, Food, t, CreditCard, <<>>,
                                       Some(recurring)),
                            <<"x">>, t)
        IN  /\ expenses = T.expenses
            /\ budgets = T.budgets
            /\ file = T.file
            /\ now = t
            /\ call = [op |-> "constructor", at |-> t, args |-> <<>>, threw |-> FALSE,
                    stored |-> 0]
            /\ ret = None
            /\ console = <<>>

\* The last tick of a run that started on one of the StartDays.
RecurringLastTick ==
    LET start == CHOOSE d \in StartDays :
                    d * TicksPerDay <= now /\ now < (d + 1) * TicksPerDay + MaxTicks
    IN  (start + 1) * TicksPerDay + MaxTicks - 1

RecurringNext ==
    \/ /\ 2 * Len(getRecurringExpenses(expenses)) <= MaxLedger
       /\ \E tails \in [1..Len(getRecurringExpenses(expenses)) -> RandomTails] :
              ProcessRecurringExpenses(tails)
    \/ Tick(RecurringLastTick)

SpecRecurring == RecurringInit /\ [][RecurringNext]_vars

(***************************************************************************)
(* The query specification: expenses are added and the ledger is filtered. *)
(***************************************************************************)
TagA == <<"a">>
TagB == <<"b">>
TagC == <<"c">>
TagD == <<"d">>

QueryStart == DateOf(2024, 4, 15)

\* A value of Math.random that no stored expense was given.
FreshTail == <<Digits36[Len(expenses) + 11]>>

QueryExpenses ==
    {NewExpense(<<"x">>, amount, category, QueryStart, Cash, tags, None) :
        amount \in {-5, 0, 5, 10}, category \in {Food, Rent},
        tags \in {<<>>, <<TagA, TagB, TagC>>}}

AmountBounds == {None, Some(0), Some(5), Some(10)}

QueryFilters ==
    {[NoFilters EXCEPT !.minAmount = lo, !.maxAmount = hi, !.category = c] :
        lo \in AmountBounds, hi \in AmountBounds, c \in {None, Some(Food)}}
    \cup
    {[NoFilters EXCEPT !.tags = tags, !.paymentMethod = pm, !.dateFrom = from,
                       !.minAmount = lo] :
        tags \in {None, Some(<<TagA, TagB>>), Some(<<TagA, TagD>>)},
        pm \in {None, Some(CreditCard)},
        from \in {None, Some(QueryStart + 1)},
        lo \in {None, Some(5)}}

QueryInit == Constructed(QueryStart)

QueryNext ==
    \/ /\ Len(expenses) < MaxQueried
       /\ \E expense \in QueryExpenses : AddExpense(expense, FreshTail)
    \/ \E filters \in QueryFilters : GetFilteredExpenses(filters)

SpecQuery == QueryInit /\ [][QueryNext]_vars

(***************************************************************************)
(* The budget specification: budgets are set and expenses dated around the *)
(* ends of the current month are added.                                    *)
(***************************************************************************)
\* The calls are made in January 2024, in mid-month or on the last day.
BudgetTimes == {DateOf(2024, 0, 15), DateOf(2024, 0, 31) + TicksPerDay - 1}

\* The first and the last tick of a day.
DayTicks(day) == {day * TicksPerDay, day * TicksPerDay + TicksPerDay - 1}

BudgetDates ==
    UNION {DayTicks(MakeDay(2024, 0, d)) : d \in {0, 1, 31, 32}}

BudgetExpenses ==
    {NewExpense(<<"x">>, amount, category, date, Cash, <<>>, None) :
        amount \in {40, 45}, category \in {Food, Rent}, date \in BudgetDates}

BudgetInit == \E t \in BudgetTimes : Constructed(t)

BudgetNext ==
    \/ /\ Len(expenses) < MaxBudgeted
       /\ \E expense \in BudgetExpenses : AddExpense(expense, FreshTail)
    \/ \E category \in {Food, Rent}, alertThreshold \in {80, 100} :
           SetBudget(category, 100, alertThreshold)
    \/ GetAllBudgets

SpecBudget == BudgetInit /\ [][BudgetNext]_vars

(***************************************************************************)
(* The parser specification: parseCSVLine is applied to every line of up   *)
(* to MaxLineLen characters over LineAlphabet, and to the example line.    *)
(***************************************************************************)
LineAlphabet == {"a", "b", Quote, Comma}

RECURSIVE LinesOfLength(_)
LinesOfLength(n) ==
    IF n = 0 THEN {<<>>}
    ELSE {Append(line, c) : line \in LinesOfLength(n - 1), c \in LineAlphabet}

\* The quoted field "say ""hi""" of the example, and its value.
ExampleLine ==
    <<Quote, "s", "a", "y", " ", Quote, Quote, "h", "i", Quote, Quote, Quote>>
ExampleValue == <<"s", "a", "y", " ", Quote, "h", "i", Quote>>

ParseLines == UNION {LinesOfLength(n) : n \in 0..MaxLineLen} \cup {ExampleLine}

ParseNext == \E line \in ParseLines : ParseCSVLine(line)

SpecParse == Constructed(QueryStart) /\ [][ParseNext]_vars

(***************************************************************************)
(* The CSV specification: expenses are added; then a document written by   *)
(* hand is imported, or the ledger is exported and the exported text       *)
(* imported into a new tracker.                                            *)
(***************************************************************************)
CsvExpenses ==
    {NewExpense(description, v.amount, Food, QueryStart, Cash, v.tags, None) :
        description \in {<<"l", "u", "n", "c", "h">>, <<"a", Quote, "b">>,
                         <<"a", Comma, "b">>},
        v \in {[amount |-> 12, tags |-> <<>>],
               [amount |-> -3, tags |-> <<TagA, TagB>>]}}

FullHeader == csvRow(CsvHeaders)
ShortHeader == <<"i", "d", Comma, "n", "a", "m", "e">>

\* The lines of the documents: rows as exportToCSV writes them, unquoted
\* rows, rows with an empty, an unknown or a missing field, and a blank line.
ImportRows ==
    { csvRow(<< <<"i", "1">>, <<"l", "u", "n", "c", "h">>, <<"1", "2">>, Food,
                <<"2", "0", "2", "4", "-", "0", "5", "-", "1", "4">>, DebitCard,
                <<"a", ";", "b">> >>),
      csvRow(<< <<"i", "2">>, <<"a", Comma, "b">>, <<"7">>, Rent, <<>>, <<>>,
                <<>> >>),
      <<"i", "3", Comma, "b", "u", "s", Comma, "5", Comma, "R", "e", "n", "t",
        Comma, "x", Comma, "p", "a", "y", "p", "a", "l", Comma, "t">>,
      <<"i", "4", Comma, "t", "e", "a">>,
      <<"i", "5", Comma, "t", "e", "a", Comma, "3">>,
      <<" ", "\t">> }

RECURSIVE RowsUpTo(_)
RowsUpTo(n) ==
    IF n = 0 THEN {<<>>}
    ELSE RowsUpTo(n - 1)
            \cup {Append(rows, row) : rows \in RowsUpTo(n - 1), row \in ImportRows}

ImportDocs ==
    {Join(<<header>> \o rows, <<NewLine>>) :
        header \in {FullHeader, ShortHeader}, rows \in RowsUpTo(MaxRows)}

\* Values of Math.random that no stored expense was given, one for each line.
FreshTails ==
    [i \in 1..(MaxRows + MaxExported + 2) |-> <<Digits36[Len(expenses) + i + 11]>>]

\* The expenses are added first: nothing but addExpense has been called.
Adding == call.op \in {"constructor", "addExpense"}

CsvNext ==
    \/ /\ Adding /\ Len(expenses) < MaxExported
       /\ \E expense \in CsvExpenses : AddExpense(expense, FreshTail)
    \/ ExportToCSV
    \/ /\ call.op = "exportToCSV" /\ ~call.threw
       /\ ImportIntoNewTracker(ret, FreshTails)
    \/ /\ Adding /\ Len(expenses) < MaxImportInto
       /\ \E csvData \in ImportDocs : ImportFromCSV(csvData, FreshTails)

SpecCsv == Constructed(QueryStart) /\ [][CsvNext]_vars

(***************************************************************************)
(* The store specification: expenses are added, updated, deleted and       *)
(* looked up by id, also by an id that no expense has, and budgets are set *)
(* and set again.                                                          *)
(***************************************************************************)
StoreExpenses == {NewExpense(<<"x">>, 40, Food, QueryStart, Cash, <<>>, None)}

StoreUpdates == {[NoUpdates EXCEPT !.amount = Some(20)]}

\* The limit and the threshold of a budget.
StoreBudgets ==
    {[monthlyLimit |-> 100, alertThreshold |-> 80],
     [monthlyLimit |-> 200, alertThreshold |-> 100]}

StoreNext ==
    \/ /\ Len(expenses) < MaxStored
       /\ \E expense \in StoreExpenses : AddExpense(expense, FreshTail)
    \/ \E id \in KnownIds, updates \in StoreUpdates : UpdateExpense(id, updates)
    \/ \E id \in KnownIds : DeleteExpense(id)
    \/ \E id \in KnownIds : GetExpense(id)
    \/ \E category \in {Food, Rent}, b \in StoreBudgets :
           SetBudget(category, b.monthlyLimit, b.alertThreshold)
    \/ Tick(QueryStart + MaxStoreTicks)

SpecStore == Constructed(QueryStart) /\ [][StoreNext]_vars

(***************************************************************************)
(* The summary specification: expenses of two categories, two months and   *)
(* two payment methods are added, and the ledger or a selection of it is   *)
(* summarised.                                                             *)
(***************************************************************************)
\* The last tick of December 2023 paid in cash, the first of January 2024
\* paid by card.
SummaryExpenses ==
    {NewExpense(<<"x">>, amount, category, v.date, v.paymentMethod, <<>>, None) :
        amount \in {-5, 0, 5}, category \in {Food, Rent},
        v \in {[date |-> DateOf(2024, 0, 1) - 1, paymentMethod |-> Cash],
               [date |-> DateOf(2024, 0, 1), paymentMethod |-> CreditCard]}}

SummaryFilters ==
    {None, Some(NoFilters), Some([NoFilters EXCEPT !.category = Some(Food)]),
     Some([NoFilters EXCEPT !.minAmount = Some(5)])}

SummaryNext ==
    \/ /\ Len(expenses) < MaxSummarized
       /\ \E expense \in SummaryExpenses : AddExpense(expense, FreshTail)
    \/ \E filters \in SummaryFilters : GetSummary(filters)

SpecSummary == Constructed(QueryStart) /\ [][SummaryNext]_vars

(***************************************************************************)
(* The tag specification: expenses with no tag, one tag and several tags   *)
(* are added and the ledger is filtered by tags.                           *)
(***************************************************************************)
TagLists ==
    {<<>>, <<TagA>>, <<TagB, TagA>>, <<TagA, TagB, TagC>>, <<TagD>>}

TagExpenses ==
    {NewExpense(<<"x">>, 5, Food, QueryStart, Cash, tags, None) : tags \in TagLists}

TagFilters ==
    {[NoFilters EXCEPT !.tags = Some(tags)] :
        tags \in {<<>>, <<TagA>>, <<TagA, TagB>>, <<TagA, TagD>>, <<TagC, TagA>>,
                  <<TagA, TagA>>}}

TagNext ==
    \/ /\ Len(expenses) < MaxTagged
       /\ \E expense \in TagExpenses : AddExpense(expense, FreshTail)
    \/ \E filters \in TagFilters : GetFilteredExpenses(filters)

SpecTags == Constructed(QueryStart) /\ [][TagNext]_vars

(***************************************************************************)
(* The fixed-clock specification: a ledger holding one recurring expense,  *)
(* due up to two days ago, on which processRecurringExpenses is called     *)
(* again and again while the clock stands still.  Math.random may yield    *)
(* for an instance what it yielded for the origin.                         *)
(***************************************************************************)
FixedClockInit ==
    \E ago \in {0, 1, 2}, dueTime \in 0..(TicksPerDay - 1),
       frequency \in Frequencies, end \in {None, Some(LedgerStart + TicksPerDay)},
       tail \in RandomTails :
        LET t == LedgerStart + TicksPerDay - 1
            recurring ==
                [frequency |-> frequency, endDate |-> end,
                 nextDue |-> LedgerStart - ago * TicksPerDay + dueTime]
            T == addExpense(Tracker(<<>>, <<>>, None, <<>>),
                            NewExpense(Netflix, 15, Food, t, CreditCard, <<>>,
                                       Some(recurring)),
                            tail, t)
        IN  /\ expenses = T.expenses
            /\ budgets = T.budgets
            /\ file = T.file
            /\ now = t
            /\ call = [op |-> "constructor", at |-> t, args |-> <<>>, threw |-> FALSE,
                       stored |-> 0]
            /\ ret = None
            /\ console = <<>>

FixedClockNext ==
    /\ 2 * Len(getRecurringExpenses(expenses)) <= MaxLedger
    /\ \E tails \in AllTails(Len(getRecurringExpenses(expenses))) :
           ProcessRecurringExpenses(tails)

SpecFixedClock == FixedClockInit /\ [][FixedClockNext]_vars

UniqueIds(es) == \A i, j \in 1..Len(es) : i # j => es[i].id # es[j].id

\* A step of SpecRecurring that is a call of processRecurringExpenses.
ProcessStep == now' = now /\ call'.op = "processRecurringExpenses"

(***************************************************************************)
(* C2: repeated invocations of processRecurringExpenses never regenerate   *)
(* the same instance: in a ledger that started with one recurring expense, *)
(* no two generated expenses (all but the first, the origin) have the same *)
(* date.  Stated for the runs in which all ids are distinct.               *)
(***************************************************************************)
C2_NoInstanceTwice ==
    UniqueIds(expenses) =>
        \A i, j \in 2..Len(expenses) :
            i < j => expenses[i].date # expenses[j].date

SatisfiesSupplied(e, f) ==
    /\ IsSome(f.dateFrom) => DateGE(e.date, Get(f.dateFrom))
    /\ IsSome(f.dateTo) => DateLE(e.date, Get(f.dateTo))
    /\ IsSome(f.category) => e.category = Get(f.category)
    /\ IsSome(f.minAmount) => Get(f.minAmount) <= e.amount
    /\ IsSome(f.maxAmount) => e.amount <= Get(f.maxAmount)
    /\ IsSome(f.paymentMethod) => e.paymentMethod = Get(f.paymentMethod)
    /\ IsSome(f.tags) =>
          \A k \in 1..Len(Get(f.tags)) :
              \E n \in 1..Len(e.tags) : e.tags[n] = Get(f.tags)[k]

\* C4: the result is, in order, exactly the stored records that satisfy every
\* supplied predicate.
C4_InclusiveAmountBounds ==
    call.op = "getFilteredExpenses" =>
        ret = SelectSeq(expenses, LAMBDA e : SatisfiesSupplied(e, call.args[1]))

(***************************************************************************)
(* C5: the current-month spend of a category, as setBudget, getAllBudgets  *)
(* and the budget alert report it, is the sum of the amounts of the stored *)
(* expenses of that category dated, at any time of day, on a day of the    *)
(* current calendar month.                                                 *)
(***************************************************************************)
InMonthOf(date, t) ==
    /\ date # InvalidDate
    /\ getFullYear(date) = getFullYear(t)
    /\ getMonth(date) = getMonth(t)

MonthSpend(es, category, t) ==
    SumAmounts(SelectSeq(es, LAMBDA e :
        e.category = category /\ InMonthOf(e.date, t)))

\* C5: every current-month spend reported is the sum over the days of the
\* calendar month of the call.
C5_CurrentMonthSpend ==
    /\ call.op = "setBudget" =>
          ret.currentSpent = MonthSpend(expenses, ret.category, call.at)
    /\ call.op = "getAllBudgets" =>
          \A i \in 1..Len(ret) :
              ret[i].currentSpent = MonthSpend(expenses, ret[i].category, call.at)
    /\ call.op = "addExpense" =>
          \A i \in 1..Len(console) :
              console[i].spent = MonthSpend(expenses, console[i].category, call.at)

(***************************************************************************)
(* C6: addExpense emits a budget alert if and only if a budget exists for  *)
(* the category of the new expense and, with the expense stored, the       *)
(* current-month spend of that category is at or above alertThreshold      *)
(* percent of monthlyLimit.                                                *)
(***************************************************************************)
C6_AlertIffThresholdReached ==
    call.op = "addExpense" =>
        LET budget == getBudget(budgets, ret.category)
        IN  (console # <<>>) <=>
                /\ IsSome(budget)
                /\ MonthSpend(expenses, ret.category, call.at) * 100
                       >= Get(budget).alertThreshold * Get(budget).monthlyLimit

(***************************************************************************)
(* C9: parseCSVLine splits a row exactly at the commas outside a quoted    *)
(* span, strips the enclosing quotes and decodes a doubled quote inside a  *)
(* quoted span to one quote.  A comma is outside a quoted span when an     *)
(* even number of quote characters precedes it; of a run of k quotes that  *)
(* starts outside a quoted span the first opens the span and the others    *)
(* pair up to (k - 1) \div 2 literal quotes, of a run that starts inside,  *)
(* k \div 2 pairs do, and an odd quote left over closes the span.          *)
(***************************************************************************)
QuotesBefore(line, i) == Cardinality({j \in 1..(i - 1) : line[j] = Quote})

UnquotedCommas(line) ==
    {i \in 1..Len(line) : line[i] = Comma /\ QuotesBefore(line, i) % 2 = 0}

\* The k-th piece of the line between two unquoted commas.
Piece(line, k) ==
    LET cuts == UnquotedCommas(line) \cup {0, Len(line) + 1}
        from == CHOOSE c \in cuts : Cardinality({x \in cuts : x < c}) = k - 1
        to == CHOOSE c \in cuts : Cardinality({x \in cuts : x < c}) = k
    IN  SubSeq(line, from + 1, to - 1)

RECURSIVE QuoteRun(_)
QuoteRun(s) == IF s # <<>> /\ s[1] = Quote THEN 1 + QuoteRun(Tail(s)) ELSE 0

RECURSIVE Quotes(_)
Quotes(n) == IF n = 0 THEN <<>> ELSE <<Quote>> \o Quotes(n - 1)

RECURSIVE Unquoted(_, _)
Unquoted(s, inside) ==
    IF s = <<>> THEN <<>>
    ELSE IF s[1] # Quote THEN <<s[1]>> \o Unquoted(Tail(s), inside)
    ELSE LET k == QuoteRun(s)
             pairs == IF inside THEN k \div 2 ELSE (k - 1) \div 2
         IN  Quotes(pairs)
                 \o Unquoted(SubSeq(s, k + 1, Len(s)), inside # (k % 2 = 1))

\* C9: one field for each piece between unquoted commas, each the piece with
\* its quotes decoded; the example line yields the example value.
C9_ParseSplitsAndDecodes ==
    call.op = "parseCSVLine" =>
        LET line == call.args[1]
        IN  /\ Len(ret) = Cardinality(UnquotedCommas(line)) + 1
            /\ \A k \in 1..Len(ret) : ret[k] = Unquoted(Piece(line, k), FALSE)
            /\ line = ExampleLine => ret = <<ExampleValue>>

\* The example line has been parsed; so has a line with a comma inside
\* quotes and one outside.
C9_Witness ==
    /\ call.op = "parseCSVLine"
    /\ \/ call.args[1] = ExampleLine
       \/ /\ call.args[1] = <<Quote, Comma, Quote, Comma, "a">>
          /\ ret = << <<Comma>>, <<"a">> >>

(***************************************************************************)
(* C7: CSV round trip.  Importing the text that exportToCSV returned into  *)
(* an empty store returns the number of the exported expenses and creates, *)
(* in order, expenses with their description, amount, category, payment    *)
(* method and tags.  Stated for the ledgers that hold an expense.          *)
(***************************************************************************)
SameContent(a, b) ==
    /\ a.description = b.description
    /\ a.amount = b.amount
    /\ a.category = b.category
    /\ a.paymentMethod = b.paymentMethod
    /\ a.tags = b.tags

\* C7: the import of the exported text recreates the content of every
\* exported expense.
C7_CsvRoundTrip ==
    [][(call.op = "exportToCSV" /\ call'.op = "new.importFromCSV"
            /\ call'.args = <<ret>> /\ expenses # <<>>)
        => /\ ~call'.threw
           /\ ret' = Len(expenses)
           /\ Len(expenses') = Len(expenses)
           /\ \A k \in 1..Len(expenses) : SameContent(expenses'[k], expenses[k])
      ]_vars

(***************************************************************************)
(* C8: every expense importFromCSV creates has a paymentMethod of the      *)
(* enumeration.  In the CSV specification every expense is added with such *)
(* a paymentMethod or imported, so every stored expense has one.           *)
(***************************************************************************)
C8_ImportedPaymentMethodValid ==
    \A i \in 1..Len(expenses) : expenses[i].paymentMethod \in PaymentMethod

(***************************************************************************)
(* C10: importFromCSV of a document with a header and at least one data    *)
(* row (two lines that are not blank) does not throw; it appends one       *)
(* expense, in row order, for each data row that has as many fields as the *)
(* header and none for the others, and returns the number of expenses it   *)
(* appended.  The fields of a line are counted by its unquoted commas.     *)
(***************************************************************************)
FieldCount(line) == Cardinality(UnquotedCommas(line)) + 1

DataLines(csvData) == SelectSeq(Split(csvData, NewLine), NonBlank)

WellFormedRows(csvData) ==
    LET lines == DataLines(csvData)
    IN  SelectSeq(Tail(lines), LAMBDA row : FieldCount(row) = FieldCount(lines[1]))

WithoutId(e) ==
    NewExpense(e.description, e.amount, e.category, e.date, e.paymentMethod,
               e.tags, e.recurring)

\* C10: the import appends the expenses of exactly the well-formed rows and
\* returns their number.
C10_ImportSkipsMalformedRows ==
    (call.op \in {"importFromCSV", "new.importFromCSV"}
        /\ Len(DataLines(call.args[1])) >= 2)
    => LET rows == WellFormedRows(call.args[1])
       IN  /\ ~call.threw
           /\ ret = Len(rows)
           /\ Len(expenses) = call.stored + Len(rows)
           /\ \A k \in 1..Len(rows) :
                  WithoutId(expenses[call.stored + k])
                      = rowExpense(parseCSVLine(rows[k]), call.at)

\* A document of a header, a malformed row and a well-formed row has been
\* imported: the malformed row was skipped with a warning and one expense
\* was created, from the row after it.
C10_Witness ==
    /\ call.op = "importFromCSV"
    /\ Len(DataLines(call.args[1])) = 3
    /\ Len(WellFormedRows(call.args[1])) = 1
    /\ FieldCount(DataLines(call.args[1])[2]) # FieldCount(DataLines(call.args[1])[1])
    /\ console # <<>>
    /\ ret = 1
    /\ expenses # <<>>

(***************************************************************************)
(* C1: no two stored expenses have the same id, whatever methods were      *)
(* called and however fast.                                                *)
(***************************************************************************)
C1_IdsUnique == UniqueIds(expenses)

(***************************************************************************)
(* C11: the store holds at most one budget per category.  A call of        *)
(* setBudget leaves the expenses alone and the budget of every other       *)
(* category as it was and where it was; the budget it returns has the      *)
(* limit and the threshold given and is what getBudget then returns for    *)
(* the category; it takes the place of the budget the category had, or is  *)
(* appended when the category had none.                                    *)
(***************************************************************************)
OneBudgetPerCategory(bs) ==
    \A i, j \in 1..Len(bs) : i # j => bs[i].category # bs[j].category

\* C11: every step keeps one budget per category, and a step of setBudget
\* replaces in place.
C11_OneBudgetPerCategory ==
    [][/\ OneBudgetPerCategory(budgets')
       /\ (now' = now /\ call'.op = "setBudget") =>
              LET category == call'.args[1]
                  had == {i \in 1..Len(budgets) : budgets[i].category = category}
              IN  /\ ret'.category = category
                  /\ ret'.monthlyLimit = call'.args[2]
                  /\ ret'.alertThreshold = call'.args[3]
                  /\ getBudget(budgets', category) = Some(ret')
                  /\ Len(budgets') = Len(budgets) + (IF had = {} THEN 1 ELSE 0)
                  /\ \A i \in 1..Len(budgets) :
                         budgets'[i] = IF i \in had THEN ret' ELSE budgets[i]
                  /\ expenses' = expenses
      ]_vars

\* setBudget has replaced the budget of the first of two categories, in a
\* store that holds an expense.
C11_Witness ==
    /\ call.op = "setBudget"
    /\ Len(budgets) = 2
    /\ budgets[1].category = call.args[1]
    /\ budgets[1].monthlyLimit = 200
    /\ budgets[2].monthlyLimit = 100
    /\ expenses # <<>>

(***************************************************************************)
(* C12: for an id that no stored expense has, updateExpense returns null,  *)
(* deleteExpense returns false and getExpense returns null; none of them   *)
(* throws, and the expenses, the budgets and the data file are left as     *)
(* they were.  A step that leaves the clock alone is the call that call'   *)
(* records.                                                                *)
(***************************************************************************)
C12_UnknownIdChangesNothing ==
    [][(/\ now' = now
        /\ call'.op \in {"updateExpense", "deleteExpense", "getExpense"}
        /\ \A i \in 1..Len(expenses) : expenses[i].id # call'.args[1])
       => /\ ~call'.threw
          /\ IF call'.op = "deleteExpense" THEN ret' = FALSE ELSE ret' = None
          /\ UNCHANGED <<expenses, budgets, file>>
      ]_vars

\* deleteExpense of an unknown id has returned false in a store that holds an
\* expense and a budget, at a time later than the file was written.
C12_Witness ==
    /\ call.op = "deleteExpense"
    /\ ret = FALSE
    /\ \A i \in 1..Len(expenses) : expenses[i].id # call.args[1]
    /\ expenses # <<>>
    /\ budgets # <<>>
    /\ file.lastUpdated < now

(***************************************************************************)
(* C13: getSummary of a collection of records (all the records, or those   *)
(* getFilteredExpenses selects) returns their number, the sum of their     *)
(* amounts, and as average the sum divided by the number, or 0 when there  *)
(* is no record; each breakdown has one entry for each key that occurs     *)
(* (category, YYYY-MM of the date, payment method) and no other, whose     *)
(* value is the sum of the amounts of the records with that key, so that   *)
(* the values of a breakdown add up to the total.                          *)
(***************************************************************************)
RECURSIVE SumValues(_)
SumValues(map) == IF map = <<>> THEN 0 ELSE Head(map).value + SumValues(Tail(map))

\* YYYY-MM of a date.
YearMonth(date) == Pad(getFullYear(date), 4) \o <<"-">> \o Pad(getMonth(date) + 1, 2)

\* The sum of the amounts of the records whose key, keys[k], is key.
RECURSIVE SumOfKey(_, _, _)
SumOfKey(records, keys, key) ==
    IF records = <<>> THEN 0
    ELSE (IF Head(keys) = key THEN Head(records).amount ELSE 0)
             + SumOfKey(Tail(records), Tail(keys), key)

\* map is the breakdown of the records by their keys, keys[k] being the key of
\* records[k].
IsBreakdown(map, records, keys) ==
    /\ \A i, j \in 1..Len(map) : i # j => map[i].key # map[j].key
    /\ {map[i].key : i \in 1..Len(map)} = {keys[k] : k \in 1..Len(keys)}
    /\ \A i \in 1..Len(map) : map[i].value = SumOfKey(records, keys, map[i].key)
    /\ SumValues(map) = SumAmounts(records)

\* C13: the summary returned is the count, total, average and breakdowns of
\* the records summarised.
C13_SummaryAggregates ==
    call.op = "getSummary" =>
        LET filters == call.args[1]
            records == IF filters = None THEN expenses
                       ELSE getFilteredExpenses(expenses, Get(filters))
        IN  /\ ret.expenseCount = Len(records)
            /\ ret.totalExpenses = SumAmounts(records)
            /\ IF Len(records) = 0 THEN ret.averageExpense.num = 0
               ELSE ret.averageExpense.num * Len(records)
                        = SumAmounts(records) * ret.averageExpense.den
            /\ IsBreakdown(ret.categoryBreakdown, records,
                           [k \in 1..Len(records) |-> records[k].category])
            /\ IsBreakdown(ret.monthlyTrend, records,
                           [k \in 1..Len(records) |-> YearMonth(records[k].date)])
            /\ IsBreakdown(ret.paymentMethodBreakdown, records,
                           [k \in 1..Len(records) |-> records[k].paymentMethod])

\* Three expenses have been summarised, two of them of one category, the
\* third of another, over two months.
C13_Witness ==
    /\ call.op = "getSummary"
    /\ call.args[1] = None
    /\ ret.expenseCount = 3
    /\ Len(ret.categoryBreakdown) = 2
    /\ Len(ret.monthlyTrend) = 2
    /\ ret.categoryBreakdown[1].value = 10
    /\ ret.totalExpenses = 5

(***************************************************************************)
(* C14: the tags predicate has superset semantics.  Filtered by the tags T *)
(* alone, the ledger yields, in order, exactly the records among whose     *)
(* tags every tag of T occurs; a record tagged a, b, c is returned for     *)
(* T = [a, b] and is not returned for T = [a, d].                          *)
(***************************************************************************)
TagSet(tags) == {tags[k] : k \in 1..Len(tags)}

\* C14: the result is the records whose tag set includes the filter's.
C14_TagsSuperset ==
    call.op = "getFilteredExpenses" =>
        LET T == Get(call.args[1].tags)
            abc == {i \in 1..Len(expenses) : expenses[i].tags = <<TagA, TagB, TagC>>}
        IN  /\ ret = SelectSeq(expenses, LAMBDA e : TagSet(T) \subseteq TagSet(e.tags))
            /\ T = <<TagA, TagB>> =>
                   \A i \in abc : \E k \in 1..Len(ret) : ret[k] = expenses[i]
            /\ T = <<TagA, TagD>> =>
                   \A i \in abc : \A k \in 1..Len(ret) : ret[k] # expenses[i]

\* Filtered by [a, b], a ledger of a record tagged a and a record tagged
\* a, b, c has yielded the second alone.
C14_Witness ==
    /\ call.op = "getFilteredExpenses"
    /\ call.args[1].tags = Some(<<TagA, TagB>>)
    /\ Len(expenses) = 2
    /\ expenses[1].tags = <<TagA>>
    /\ expenses[2].tags = <<TagA, TagB, TagC>>
    /\ ret = <<expenses[2]>>

(***************************************************************************)
(* C15: with the clock held fixed, every invocation of                     *)
(* processRecurringExpenses strictly advances the nextDue of each template *)
(* it fires: the template of every stored expense that was due is, after   *)
(* the call, due later than it was, and the template of every generated    *)
(* expense is due later than the date the expense was generated for.  This *)
(* is what lets repeated invocations reach one that generates nothing: a   *)
(* template that is fired and not advanced is fired by every invocation.   *)
(***************************************************************************)
C15_FiredTemplatesAdvance ==
    [][ProcessStep =>
        /\ \A i \in 1..Len(expenses) :
               (/\ IsSome(expenses[i].recurring)
                /\ isDue(Get(expenses[i].recurring), now))
               => DateGT(Get(expenses'[i].recurring).nextDue,
                         Get(expenses[i].recurring).nextDue)
        /\ \A k \in 1..Len(ret') :
               DateGT(Get(ret'[k].recurring).nextDue, ret'[k].date)
      ]_vars
====
